---- MODULE Spec2Model ----
(***************************************************************************)
(* Webhook-driven user synchronisation (clerkCreateUser, clerkUpdateUser,  *)
(* clerkDeleteUser) and the cache tags it invalidates.                     *)
(*                                                                         *)
(* A run is one execution of an Inngest function for one delivered event.  *)
(* Each function consists of a single step.run callback; when the callback *)
(* throws anything but a NonRetriableError the step is run again from its  *)
(* first line.  The awaits inside the callback are the suspension points   *)
(* at which other runs interleave.                                         *)
(***************************************************************************)
EXTENDS Integers, Sequences, FiniteSets, TLC

\* ---------------------------------------------------------------- bounds
NumRuns == 3
MaxFaults == 1
MaxActive == 2
AttemptCap == 3

Runs == 1..NumRuns

Null == "null"

\* ------------------------------------------------------- event payloads
\* Strings that the code takes apart (names) are sequences of characters; a
\* nullable name is NullStr or Str(s).
NullStr == <<>>

Str(s) == <<s>>

\* A value that is undefined, null or a string (a sequence of characters)
JsUndefined == [k |-> "undefined", s |-> <<>>]

JsNull == [k |-> "null", s |-> <<>>]

JsStr(s) == [k |-> "string", s |-> s]

PA ==
  [id |-> "u1", first_name |-> Str(<<"A">>), last_name |-> Str(<<"B">>),
   image_url |-> "imgA",
   email_addresses |-> <<[id |-> "e1", email_address |-> "a@x"]>>,
   primary_email_address_id |-> "e1", created_at |-> 1, updated_at |-> 1]

PB ==
  [id |-> "u1", first_name |-> NullStr, last_name |-> NullStr,
   image_url |-> "imgB",
   email_addresses |-> <<[id |-> "e1", email_address |-> "a@x"],
                         [id |-> "e2", email_address |-> "b@x"]>>,
   primary_email_address_id |-> "e2", created_at |-> 2, updated_at |-> 3]

PC ==
  [id |-> "u2", first_name |-> Str(<<"C">>), last_name |-> NullStr,
   image_url |-> "imgC",
   email_addresses |-> <<[id |-> "e3", email_address |-> "c@x"]>>,
   primary_email_address_id |-> "e3", created_at |-> 1, updated_at |-> 2]

\* primary_email_address_id names no element of email_addresses
PD ==
  [id |-> "u1", first_name |-> Str(<<"A">>), last_name |-> Str(<<"B">>),
   image_url |-> "imgA",
   email_addresses |-> <<[id |-> "e1", email_address |-> "a@x"]>>,
   primary_email_address_id |-> "e9", created_at |-> 1, updated_at |-> 1]

UserPayloads == {PA, PB, PC, PD}

DeletedPayloads == {[id |-> "u1"], [id |-> Null]}

UpdatedPayloads == {PB, PD}

Events ==
  [type : {"created"}, data : UserPayloads]
    \cup [type : {"updated"}, data : UpdatedPayloads]
    \cup [type : {"deleted"}, data : DeletedPayloads]

NoData == [id |-> Null]

UserIds == {"u1", "u2"}

\* ------------------------------------------------------------ cache tags
\* type CacheTag
CacheTags ==
  {"users", "organizations", "jobListings", "userNotifications", "userResumes",
   "jobListingApplications", "organizationUserSettings",
   "userNotificationSettings"}

getGlobalTag(tag) == "global:" \o tag

getJobListingTag(tag, jobListingId) == "jobListing:" \o jobListingId \o "-" \o tag

getOrganizationTag(tag, organizationId) ==
  "organization:" \o tag \o "-" \o organizationId

\* the kind is left out of the tag
getIdTag_NoKind(tag, id) == "id:" \o id

\* an empty id is refused with InvalidArgument
getIdTag_RejectEmpty(tag, id) ==
  IF id = "" THEN "InvalidArgument" ELSE "id:" \o tag \o "-" \o id

getIdTag(tag, id) == "id:" \o tag \o "-" \o id

getUserGlobalTag == getGlobalTag("users")

getUserIdTag(id) == getIdTag("users", id)

getUserNotificationSettingsGlobalTag == getGlobalTag("userNotificationSettings")

getUserNotificationSettingsIdTag(userId) ==
  getIdTag("userNotificationSettings", userId)

\* only the global tag is revalidated
revalidateUserCache_GlobalOnly(id) == <<getUserGlobalTag>>

\* the revalidateTag calls of revalidateUserCache, in call order
revalidateUserCache(id) == <<getUserGlobalTag, getUserIdTag(id)>>

\* the revalidateTag calls of revalidateUserNotificationSettingsCache
revalidateUserNotificationSettingsCache(id) ==
  <<getUserNotificationSettingsGlobalTag, getUserNotificationSettingsIdTag(id)>>

getJobListingsGlobalTag == getGlobalTag("jobListings")

getJobListingOrganizationTag(organizationId) ==
  getOrganizationTag("jobListings", organizationId)

getJobListingIdTag(id) == getIdTag("jobListings", id)

\* the id tag is revalidated before the organization tag
revalidateJobListingCache_IdBeforeOrganization(id, organizationId) ==
  <<getJobListingsGlobalTag, getJobListingIdTag(id),
    getJobListingOrganizationTag(organizationId)>>

\* the organization tag is not revalidated
revalidateJobListingCache_NoOrganization(id, organizationId) ==
  <<getJobListingsGlobalTag, getJobListingIdTag(id)>>

\* the revalidateTag calls of revalidateJobListingCache, in call order
revalidateJobListingCache(id, organizationId) ==
  <<getJobListingsGlobalTag, getJobListingOrganizationTag(organizationId),
    getJobListingIdTag(id)>>

\* ------------------------------------------------------ pure helpers
Range(s) == {s[i] : i \in DOMAIN s}

\* what find returns when no element passes the test
Undefined == [id |-> Null, email_address |-> Null]

\* Array.prototype.find: the first element satisfying the test
FindEmail(userData) ==
  LET hits == {i \in DOMAIN userData.email_addresses :
                 userData.email_addresses[i].id = userData.primary_email_address_id}
  IN IF hits = {} THEN Undefined
     ELSE userData.email_addresses[CHOOSE i \in hits : \A j \in hits : i <= j]

\* x ?? ''
OrEmpty(x) == IF x = NullStr THEN <<>> ELSE x[1]

RECURSIVE TrimStart(_)
TrimStart(s) ==
  IF s = <<>> THEN s
  ELSE IF Head(s) = " " THEN TrimStart(Tail(s)) ELSE s

RECURSIVE TrimEnd(_)
TrimEnd(s) ==
  IF s = <<>> THEN s
  ELSE IF s[Len(s)] = " " THEN TrimEnd(SubSeq(s, 1, Len(s) - 1)) ELSE s

Trim(s) == TrimEnd(TrimStart(s))

UnknownUser == <<"U", "n", "k", "n", "o", "w", "n", " ", "U", "s", "e", "r">>

\* `${first_name ?? ''} ${last_name ?? ''}`.trim() || 'Unknown User'
DisplayName(userData) ==
  LET t == Trim(OrEmpty(userData.first_name) \o <<" ">> \o OrEmpty(userData.last_name))
  IN IF t = <<>> THEN UnknownUser ELSE t

\* new Date(ms)
NewDate(ms) == [time |-> ms]

\* createdAt and updatedAt take each other's payload field
UserValues_DatesSwapped(userData, email) ==
  [id |-> userData.id,
   name |-> DisplayName(userData),
   imageUrl |-> userData.image_url,
   email |-> email.email_address,
   createdAt |-> NewDate(userData.updated_at),
   updatedAt |-> NewDate(userData.created_at)]

\* the .values({...}) of the user insert
UserValues(userData, email) ==
  [id |-> userData.id,
   name |-> DisplayName(userData),
   imageUrl |-> userData.image_url,
   email |-> email.email_address,
   createdAt |-> NewDate(userData.created_at),
   updatedAt |-> NewDate(userData.updated_at)]

\* ------------------------------------------------------------- state
VARIABLES
  users,      \* UserTable: sequence of rows
  settings,   \* UserNotificationSettingsTable: sequence of rows
  stale,      \* tags passed to revalidateTag so far
  run,        \* per run: the event and the position inside its handler
  faults,     \* infrastructure failures injected so far
  call,       \* the latest call of a cache tag function: arguments and result
  prev,       \* the call of a cache tag function before that
  last,       \* the latest call of a revalidate function and what it emitted
  used,       \* the arguments the revalidate functions were called with
  organizations,  \* OrganizationTable: the ids that have a row
  jobListings,    \* JobListingTable: set of rows
  applications,   \* JobListingApplicationTable: set of rows
  resp,       \* the latest call of a server action, query or page and its outcome
  cached      \* entries of the data cache: a cached read and its tags

vars ==
  <<users, settings, stale, run, faults, call, prev, last, used,
    organizations, jobListings, applications, resp, cached>>

\* the job board tables and the latest call on them
jobVars == <<organizations, jobListings, applications, resp>>

\* what the user handlers never touch
outsideSync == <<call, prev, last, used, jobVars, cached>>

\* what the cache tag functions never touch
outsideTags == <<users, settings, run, faults, jobVars, cached>>

\* what the revalidate functions never touch
outsideRevalidate == <<users, settings, run, faults, jobVars, call, prev>>

NoResp == [fn |-> "none", n |-> 0]

NoCall == [fn |-> "none", kind |-> "", id |-> "", out |-> ""]

NoRevalidate == [fn |-> "none", id |-> "", organizationId |-> "", tags |-> <<>>]

IdleRun ==
  [type |-> "none", data |-> NoData, pc |-> "idle", attempts |-> 0,
   errs |-> {}, found |-> FALSE, writes |-> 0, txs |-> 0, affected |-> 0,
   after |-> {}]

Terminal(r) == run[r].pc \in {"done", "rejected"}

Active == {r \in Runs : run[r].pc # "idle" /\ ~Terminal(r)}

\* ------------------------------------------------------ storage layer
RowsOf(tbl, key, id) == {i \in DOMAIN tbl : tbl[i][key] = id}

CountUsers(id) == Cardinality(RowsOf(users, "id", id))

CountSettings(id) == Cardinality(RowsOf(settings, "userId", id))

\* the select compares the wrong column
ExistingUser_WrongColumn(id) == RowsOf(users, "email", id)

\* db.select({id}).from(UserTable).where(eq(UserTable.id, id)).limit(1)
ExistingUser(id) == RowsOf(users, "id", id)

\* primary key of users(id) and of user_notification_settings(userId)
PkConflict(tbl, key, id) == RowsOf(tbl, key, id) # {}

Init ==
  /\ users = <<>>
  /\ settings = <<>>
  /\ stale = {}
  /\ run = [r \in Runs |-> IdleRun]
  /\ faults = 0
  /\ call = NoCall
  /\ prev = NoCall
  /\ last = NoRevalidate
  /\ used = {}
  /\ organizations = {}
  /\ jobListings = {}
  /\ applications = {}
  /\ resp = NoResp
  /\ cached = {}

\* ------------------------------------------------------------ delivery
\* Inngest starts a run of the function subscribed to the event.  Runs are
\* interchangeable, so they are started in index order; at most MaxActive
\* of them are in flight at a time.
Deliver(r) ==
  /\ run[r].pc = "idle"
  /\ \A q \in Runs : q < r => run[q].pc # "idle"
  /\ Cardinality(Active) < MaxActive
  /\ \E ev \in Events :
       run' = [run EXCEPT ![r] =
                 [IdleRun EXCEPT !.type = ev.type, !.data = ev.data,
                                 !.pc = "received",
                                 !.after = {q \in Runs : Terminal(q)}]]
  /\ UNCHANGED <<users, settings, stale, faults, outsideSync>>

\* attempts are counted up to AttemptCap
CountAttempt(n) == IF n < AttemptCap THEN n + 1 ELSE n

\* every throw ends the run, as if all errors were NonRetriableError
Retry_GiveUp(r, kind) ==
  [run[r] EXCEPT !.pc = "rejected", !.errs = @ \cup {kind}]

\* a retriable throw out of step.run: the step is scheduled again
Retry(r, kind) ==
  [run[r] EXCEPT !.pc = "received", !.errs = @ \cup {kind}]

\* --------------------------------------------------------- validation
\* the null check on the found email is gone
EmailMissing_Never(userData) == FALSE

\* email == null after the find (create-user and update-user steps)
EmailMissing(userData) == FindEmail(userData) = Undefined

\* the null check on the id is gone
IdMissing_Never(data) == FALSE

\* a delete for a user that has no row is refused as well
IdMissing_OrNoRow(data) == data.id = Null \/ RowsOf(users, "id", data.id) = {}

\* id == null (delete-user step)
IdMissing(data) == data.id = Null

Invalid(r) ==
  IF run[r].type = "deleted" THEN IdMissing(run[r].data)
  ELSE EmailMissing(run[r].data)

\* a plain Error is thrown instead: the step is retried like any other
Reject_Retriable(r) ==
  [run[r] EXCEPT !.pc = "received", !.errs = @ \cup {"validation"},
                 !.attempts = CountAttempt(@)]

\* throw new NonRetriableError(...): the run fails for good
Reject(r) == [run[r] EXCEPT !.pc = "rejected", !.errs = @ \cup {"validation"},
                            !.attempts = CountAttempt(@)]

\* The step callback starts (first time or as a retry) and runs up to its
\* first await.
Validate(r) ==
  /\ run[r].pc = "received"
  /\ run' = [run EXCEPT ![r] =
               IF Invalid(r) THEN Reject(r)
               ELSE [run[r] EXCEPT !.pc = "validated", !.attempts = CountAttempt(@)]]
  /\ UNCHANGED <<users, settings, stale, faults, outsideSync>>

\* ------------------------------------------------------ clerkCreateUser
\* the existence check is ignored: the insert is always attempted
NeedsInsert_Always(found) == TRUE

\* existingUser.length === 0
NeedsInsert(found) == ~found

CreateSelect(r) ==
  /\ run[r].type = "created"
  /\ run[r].pc = "validated"
  /\ run' = [run EXCEPT ![r].found = ExistingUser(run[r].data.id) # {},
                        ![r].pc = "checked"]
  /\ UNCHANGED <<users, settings, stale, faults, outsideSync>>

\* db.transaction: both inserts commit, or a unique violation rolls both back
CreateUserTx(userData, email) ==
  IF PkConflict(users, "id", userData.id)
       \/ PkConflict(settings, "userId", userData.id)
  THEN [ok |-> FALSE, users |-> users, settings |-> settings]
  ELSE [ok |-> TRUE,
        users |-> Append(users, UserValues(userData, email)),
        settings |-> Append(settings, [userId |-> userData.id])]

CreateTransaction(r) ==
  /\ run[r].type = "created"
  /\ run[r].pc = "checked"
  /\ NeedsInsert(run[r].found)
  /\ LET tx == CreateUserTx(run[r].data, FindEmail(run[r].data)) IN
       /\ users' = tx.users
       /\ settings' = tx.settings
       /\ run' = [run EXCEPT ![r] =
                    IF tx.ok
                    THEN [run[r] EXCEPT !.pc = "reconciled", !.txs = @ + 1,
                                        !.writes = @ + 2]
                    ELSE [Retry(r, "conflict") EXCEPT !.txs = @ + 1]]
  /\ UNCHANGED <<stale, faults, outsideSync>>

\* the else branch: "User already exists (idempotent retry)"
CreateSkip(r) ==
  /\ run[r].type = "created"
  /\ run[r].pc = "checked"
  /\ ~NeedsInsert(run[r].found)
  /\ run' = [run EXCEPT ![r].pc = "reconciled"]
  /\ UNCHANGED <<users, settings, stale, faults, outsideSync>>

\* only the user tags are revalidated
CreateUserTags_UserOnly(id) == revalidateUserCache(id)

\* revalidateUserCache(id); revalidateUserNotificationSettingsCache(id)
CreateUserTags(id) ==
  revalidateUserCache(id) \o revalidateUserNotificationSettingsCache(id)

\* ------------------------------------------------------ clerkUpdateUser
\* updatedAt is taken from the payload's created_at
UpdateValues_CreatedAtAsUpdatedAt(userData, email) ==
  [name |-> DisplayName(userData),
   imageUrl |-> userData.image_url,
   email |-> email.email_address,
   updatedAt |-> NewDate(userData.created_at)]

\* the second argument of updateUser(...)
UpdateValues(userData, email) ==
  [name |-> DisplayName(userData),
   imageUrl |-> userData.image_url,
   email |-> email.email_address,
   updatedAt |-> NewDate(userData.updated_at)]

\* updateUser(id, data): UPDATE users SET ... WHERE id = id
updateUser(id, data) ==
  [i \in DOMAIN users |->
     IF users[i].id = id
     THEN [users[i] EXCEPT !.name = data.name, !.imageUrl = data.imageUrl,
                           !.email = data.email, !.updatedAt = data.updatedAt]
     ELSE users[i]]

\* the handler creates the row when the update finds none
UpdateUser_Upsert(r) ==
  /\ run[r].type = "updated"
  /\ run[r].pc = "validated"
  /\ users' = IF CountUsers(run[r].data.id) = 0
               THEN Append(users, UserValues(run[r].data, FindEmail(run[r].data)))
               ELSE updateUser(run[r].data.id,
                               UpdateValues(run[r].data, FindEmail(run[r].data)))
  /\ run' = [run EXCEPT ![r].pc = "reconciled",
                        ![r].affected = 1,
                        ![r].writes = @ + 1]
  /\ UNCHANGED <<settings, stale, faults, outsideSync>>

UpdateUser(r) ==
  /\ run[r].type = "updated"
  /\ run[r].pc = "validated"
  /\ users' = updateUser(run[r].data.id,
                         UpdateValues(run[r].data, FindEmail(run[r].data)))
  /\ run' = [run EXCEPT ![r].pc = "reconciled",
                        ![r].affected = CountUsers(run[r].data.id),
                        ![r].writes = @ + CountUsers(run[r].data.id)]
  /\ UNCHANGED <<settings, stale, faults, outsideSync>>

\* ------------------------------------------------------ clerkDeleteUser
\* deleteUser(id): DELETE FROM users WHERE id = id
deleteUser(id) == SelectSeq(users, LAMBDA row : row.id # id)

\* the settings row is owned by the user row and goes with it
CascadeSettings(id) == SelectSeq(settings, LAMBDA row : row.userId # id)

DeleteUser(r) ==
  /\ run[r].type = "deleted"
  /\ run[r].pc = "validated"
  /\ users' = deleteUser(run[r].data.id)
  /\ settings' = CascadeSettings(run[r].data.id)
  /\ run' = [run EXCEPT ![r].pc = "reconciled",
                        ![r].affected = CountUsers(run[r].data.id),
                        ![r].writes = @ + CountUsers(run[r].data.id)]
  /\ UNCHANGED <<stale, faults, outsideSync>>

\* ------------------------------------------------- cache invalidation
\* the revalidateTag calls a run issues once its storage work is over
TagsFor(r) ==
  IF run[r].type = "created" THEN CreateUserTags(run[r].data.id)
  ELSE revalidateUserCache(run[r].data.id)

\* the tags are revalidated as soon as the payload is validated
Revalidate_BeforeReconcile(r) ==
  /\ run[r].pc \in {"validated", "reconciled"}
  /\ stale' = stale \cup Range(TagsFor(r))
  /\ run' = [run EXCEPT ![r].pc = "done"]
  /\ UNCHANGED <<users, settings, faults, outsideSync>>

Revalidate(r) ==
  /\ run[r].pc = "reconciled"
  /\ stale' = stale \cup Range(TagsFor(r))
  /\ run' = [run EXCEPT ![r].pc = "done"]
  /\ UNCHANGED <<users, settings, faults, outsideSync>>

\* ------------------------------------------------------------- faults
\* The pending database call (select, transaction, update or delete) fails
\* without effect: the store was unreachable or the attempt timed out.
AwaitsDb(r) ==
  \/ run[r].pc = "validated"
  \/ run[r].type = "created" /\ run[r].pc = "checked" /\ NeedsInsert(run[r].found)

InfraFault(r) ==
  /\ faults < MaxFaults
  /\ AwaitsDb(r)
  /\ run' = [run EXCEPT ![r] = Retry(r, "infra")]
  /\ faults' = faults + 1
  /\ UNCHANGED <<users, settings, stale, outsideSync>>

\* The k+1-th revalidateTag call throws; nothing catches it, so the step
\* fails after the first k tags were marked stale.
CacheFault(r) ==
  /\ faults < MaxFaults
  /\ run[r].pc = "reconciled"
  /\ \E k \in 0..(Len(TagsFor(r)) - 1) :
       stale' = stale \cup Range(SubSeq(TagsFor(r), 1, k))
  /\ run' = [run EXCEPT ![r] = Retry(r, "cache")]
  /\ faults' = faults + 1
  /\ UNCHANGED <<users, settings, outsideSync>>

\* ------------------------------------------------------ specification
Step(r) ==
  \/ Validate(r)
  \/ CreateSelect(r)
  \/ CreateTransaction(r)
  \/ CreateSkip(r)
  \/ UpdateUser(r)
  \/ DeleteUser(r)
  \/ Revalidate(r)

Next ==
  \/ \E r \in Runs : Deliver(r)
  \/ \E r \in Runs : Step(r)
  \/ \E r \in Runs : InfraFault(r)
  \/ \E r \in Runs : CacheFault(r)

Spec == Init /\ [][Next]_vars

TypeOK ==
  /\ faults \in 0..MaxFaults
  /\ \A r \in Runs :
       run[r].pc \in {"idle", "received", "validated", "checked", "step2",
                      "reconciled", "done", "rejected"}

\* ------------------------------- clerkCreateUser in two steps
\* The handler as two step.run calls: "create-user" inserts the user row,
\* "create-user-notification-settings" inserts the settings row.  A step that
\* succeeded is not run again; a failed step is retried on its own.

\* insertUser(user): insert unless the id is taken, then revalidate
insertUser(user) ==
  IF PkConflict(users, "id", user.id) THEN users ELSE Append(users, user)

\* on conflict the existing row is replaced by the new values
insertUserNotificationSettings_OnConflictUpdate(row) ==
  IF PkConflict(settings, "userId", row.userId)
  THEN [i \in DOMAIN settings |->
          IF settings[i].userId = row.userId THEN row ELSE settings[i]]
  ELSE Append(settings, row)

\* insertUserNotificationSettings: insert ... onConflictDoNothing
insertUserNotificationSettings(row) ==
  IF PkConflict(settings, "userId", row.userId) THEN settings
  ELSE Append(settings, row)

TwoStepInsertUser(r) ==
  /\ run[r].type = "created"
  /\ run[r].pc = "validated"
  /\ users' = insertUser(UserValues(run[r].data, FindEmail(run[r].data)))
  /\ stale' = stale \cup Range(revalidateUserCache(run[r].data.id))
  /\ run' = [run EXCEPT ![r].pc = "step2",
                        ![r].writes = @ + Len(users') - Len(users)]
  /\ UNCHANGED <<settings, faults, outsideSync>>

TwoStepInsertSettings(r) ==
  /\ run[r].type = "created"
  /\ run[r].pc = "step2"
  /\ settings' = insertUserNotificationSettings([userId |-> run[r].data.id])
  /\ stale' = stale \cup
                Range(revalidateUserNotificationSettingsCache(run[r].data.id))
  /\ run' = [run EXCEPT ![r].pc = "done",
                        ![r].writes = @ + Len(settings') - Len(settings)]
  /\ UNCHANGED <<users, faults, outsideSync>>

\* the second step fails without effect and is scheduled again
TwoStepFault(r) ==
  /\ faults < MaxFaults
  /\ run[r].pc = "step2"
  /\ run' = [run EXCEPT ![r].errs = @ \cup {"infra"}]
  /\ faults' = faults + 1
  /\ UNCHANGED <<users, settings, stale, outsideSync>>

NextTwoStep ==
  \/ \E r \in Runs : Deliver(r)
  \/ \E r \in Runs : Validate(r)
  \/ \E r \in Runs : TwoStepInsertUser(r)
  \/ \E r \in Runs : TwoStepInsertSettings(r)
  \/ \E r \in Runs : TwoStepFault(r)
  \/ \E r \in Runs : UpdateUser(r)
  \/ \E r \in Runs : DeleteUser(r)
  \/ \E r \in Runs : Revalidate(r)
  \/ \E r \in Runs : InfraFault(r)
  \/ \E r \in Runs : CacheFault(r)

SpecTwoStep == Init /\ [][NextTwoStep]_vars

\* ------------------------------------------------ cache tag functions
\* The tag functions are pure: string in, string out.  They are called with
\* every kind and with ids that are empty, plain, or contain a kind and the
\* separator; the two latest calls are kept, so results can be compared.
TagIds == {"", "u1", "7", "a-users", "users-a"}

Called(fn, tag, id, out) == [fn |-> fn, kind |-> tag, id |-> id, out |-> out]

CallGetGlobalTag ==
  /\ \E tag \in CacheTags :
       call' = Called("getGlobalTag", tag, "", getGlobalTag(tag))
  /\ prev' = call
  /\ UNCHANGED <<outsideTags, stale, last, used>>

CallGetIdTag ==
  /\ \E tag \in CacheTags, id \in TagIds :
       call' = Called("getIdTag", tag, id, getIdTag(tag, id))
  /\ prev' = call
  /\ UNCHANGED <<outsideTags, stale, last, used>>

CallGetJobListingTag ==
  /\ \E tag \in CacheTags, jobListingId \in TagIds :
       call' = Called("getJobListingTag", tag, jobListingId,
                      getJobListingTag(tag, jobListingId))
  /\ prev' = call
  /\ UNCHANGED <<outsideTags, stale, last, used>>

CallGetOrganizationTag ==
  /\ \E tag \in CacheTags, organizationId \in TagIds :
       call' = Called("getOrganizationTag", tag, organizationId,
                      getOrganizationTag(tag, organizationId))
  /\ prev' = call
  /\ UNCHANGED <<outsideTags, stale, last, used>>

NextTags ==
  \/ CallGetGlobalTag
  \/ CallGetIdTag
  \/ CallGetJobListingTag
  \/ CallGetOrganizationTag

SpecTags == Init /\ [][NextTags]_vars

\* ------------------------------------------------ revalidate functions
\* The revalidate functions are synchronous: a call passes its tags to
\* revalidateTag one after the other and returns.  Calls come in any order
\* and any number of times.
JobListingIds == {"j1", "j2"}

OrganizationIds == {"o1", "o2"}

\* revalidateTag(tag): the tag is stale from now on
revalidateTag(tags, tag) == tags \cup {tag}

\* an entry filed under a revalidated tag is no longer served
Expire(entries, tags) ==
  {[e EXCEPT !.fresh = FALSE] : e \in {x \in entries : x.tags \cap tags # {}}}
    \cup {x \in entries : x.tags \cap tags = {}}

\* the tags of emitted[1..n] passed to revalidateTag one after the other
RECURSIVE RevalidateAll(_, _, _)
RevalidateAll(tags, emitted, n) ==
  IF n = 0 THEN tags
  ELSE revalidateTag(RevalidateAll(tags, emitted, n - 1), emitted[n])

Revalidated(fn, id, organizationId, emitted) ==
  /\ stale' = RevalidateAll(stale, emitted, Len(emitted))
  /\ last' = [fn |-> fn, id |-> id, organizationId |-> organizationId,
              tags |-> emitted]
  /\ used' = used \cup {[fn |-> fn, id |-> id, organizationId |-> organizationId]}
  /\ cached' = Expire(cached, Range(emitted))
  /\ UNCHANGED outsideRevalidate

CallRevalidateUserCache ==
  \E id \in UserIds :
    Revalidated("revalidateUserCache", id, "", revalidateUserCache(id))

CallRevalidateUserNotificationSettingsCache ==
  \E userId \in UserIds :
    Revalidated("revalidateUserNotificationSettingsCache", userId, "",
                revalidateUserNotificationSettingsCache(userId))

CallRevalidateJobListingCache ==
  \E id \in JobListingIds, organizationId \in OrganizationIds :
    Revalidated("revalidateJobListingCache", id, organizationId,
                revalidateJobListingCache(id, organizationId))

NextCache ==
  \/ CallRevalidateUserCache
  \/ CallRevalidateUserNotificationSettingsCache
  \/ CallRevalidateJobListingCache

SpecCache == Init /\ [][NextCache]_vars

\* ------------------------------------------------ tables and references
\* The tables as the schema declares them: primary keys, foreign keys and
\* what a delete of the referenced row does.  Rows are inserted and deleted
\* in any order; an insert the database refuses leaves the tables alone.

\* a job_listings row: the columns the server actions and queries look at
SampleListing(id, organizationId) ==
  [id |-> id, organizationId |-> organizationId, status |-> "draft",
   title |-> <<"T">>, locationRequirement |-> "remote", city |-> JsNull,
   district |-> JsNull]

ListingIds(listings) == {j.id : j \in listings}

\* organizationId is a plain column: no reference to organizations
ListingsAfterOrganizationDelete_NoReference(organizationId) == jobListings

\* organizationId: references(OrganizationTable.id, { onDelete: "cascade" })
ListingsAfterOrganizationDelete(organizationId) ==
  {j \in jobListings : j.organizationId # organizationId}

\* jobListingId: references(JobListingTable.id, { onDelete: "cascade" })
ApplicationsAfterListingDelete(listings) ==
  {a \in applications : a.jobListingId \in ListingIds(listings)}

\* userId: references(UserTable.id, { onDelete: "cascade" })
ApplicationsAfterUserDelete(userId) ==
  {a \in applications : a.userId # userId}

Responded(fn, error, removed) ==
  resp' = [fn |-> fn, error |-> error, removed |-> removed]

InsertOrganization ==
  \E id \in OrganizationIds :
    /\ id \notin organizations
    /\ organizations' = organizations \cup {id}
    /\ Responded("insertOrganization", "none", 0)
    /\ UNCHANGED <<users, settings, stale, run, faults, call, prev, last, used,
                   jobListings, applications, cached>>

DeleteOrganization ==
  \E id \in organizations :
    /\ organizations' = organizations \ {id}
    /\ jobListings' = ListingsAfterOrganizationDelete(id)
    /\ applications' = ApplicationsAfterListingDelete(jobListings')
    /\ Responded("deleteOrganization", "none",
                 Cardinality(jobListings \ jobListings')
                   + Cardinality(applications \ applications'))
    /\ UNCHANGED <<users, settings, stale, run, faults, call, prev, last, used,
                   cached>>

InsertListingRow ==
  \E id \in JobListingIds, organizationId \in OrganizationIds :
    /\ id \notin ListingIds(jobListings)
    /\ IF organizationId \in organizations
       THEN /\ jobListings' = jobListings \cup {SampleListing(id, organizationId)}
            /\ Responded("insertJobListing", "none", 0)
       ELSE /\ jobListings' = jobListings
            /\ Responded("insertJobListing", "foreign_key", 0)
    /\ UNCHANGED <<users, settings, stale, run, faults, call, prev, last, used,
                   organizations, applications, cached>>

DeleteListingRow ==
  \E j \in jobListings :
    /\ jobListings' = jobListings \ {j}
    /\ applications' = ApplicationsAfterListingDelete(jobListings')
    /\ Responded("deleteJobListing", "none",
                 Cardinality(applications \ applications'))
    /\ UNCHANGED <<users, settings, stale, run, faults, call, prev, last, used,
                   organizations, cached>>

InsertApplicationRow ==
  \E jobListingId \in JobListingIds, userId \in UserIds :
    /\ [jobListingId |-> jobListingId, userId |-> userId] \notin applications
    /\ IF jobListingId \in ListingIds(jobListings) /\ CountUsers(userId) > 0
       THEN /\ applications' = applications \cup
                  {[jobListingId |-> jobListingId, userId |-> userId]}
            /\ Responded("insertJobListingApplication", "none", 0)
       ELSE /\ applications' = applications
            /\ Responded("insertJobListingApplication", "foreign_key", 0)
    /\ UNCHANGED <<users, settings, stale, run, faults, call, prev, last, used,
                   organizations, jobListings, cached>>

InsertUserRow ==
  \E userData \in {PA, PC} :
    /\ CountUsers(userData.id) = 0
    /\ users' = insertUser(UserValues(userData, FindEmail(userData)))
    /\ Responded("insertUser", "none", 0)
    /\ UNCHANGED <<settings, stale, run, faults, call, prev, last, used,
                   organizations, jobListings, applications, cached>>

DeleteUserRow ==
  \E id \in UserIds :
    /\ CountUsers(id) > 0
    /\ users' = deleteUser(id)
    /\ settings' = CascadeSettings(id)
    /\ applications' = ApplicationsAfterUserDelete(id)
    /\ Responded("deleteUser", "none",
                 Cardinality(applications \ applications'))
    /\ UNCHANGED <<stale, run, faults, call, prev, last, used,
                   organizations, jobListings, cached>>

\* insertUserNotificationSettings(settings): the insert, then the revalidate.
\* userId references users(id): without the user row the insert is refused
\* and the function throws before it revalidates.
CallInsertUserNotificationSettings ==
  \E userId \in UserIds, newJobEmailNotifications \in BOOLEAN :
    /\ IF CountUsers(userId) > 0
       THEN /\ settings' = insertUserNotificationSettings(
                             [userId |-> userId,
                              newJobEmailNotifications |-> newJobEmailNotifications])
            /\ stale' = stale \cup
                          Range(revalidateUserNotificationSettingsCache(userId))
            /\ cached' = Expire(cached,
                                Range(revalidateUserNotificationSettingsCache(userId)))
            /\ resp' = [fn |-> "insertUserNotificationSettings",
                        error |-> "none", removed |-> 0, userId |-> userId,
                        asked |-> newJobEmailNotifications]
       ELSE /\ UNCHANGED <<settings, stale, cached>>
            /\ resp' = [fn |-> "insertUserNotificationSettings",
                        error |-> "foreign_key", removed |-> 0,
                        userId |-> userId, asked |-> newJobEmailNotifications]
    /\ UNCHANGED <<users, run, faults, call, prev, last, used,
                   organizations, jobListings, applications>>

NextSchema ==
  \/ CallInsertUserNotificationSettings
  \/ InsertOrganization
  \/ DeleteOrganization
  \/ InsertListingRow
  \/ DeleteListingRow
  \/ InsertApplicationRow
  \/ InsertUserRow
  \/ DeleteUserRow

SpecSchema == Init /\ [][NextSchema]_vars

\* ------------------------------------------------------ jobListingSchema
\* Of the submitted data the model keeps title, locationRequirement, city and
\* district, and two keys the schema does not know (status, organizationId);
\* description, experienceLevel, type, wage and wageInterval are taken to be
\* valid.
JobListingInputs ==
  {[title |-> t, locationRequirement |-> l, city |-> c, district |-> d,
    status |-> x.status, organizationId |-> x.organizationId] :
     t \in {<<>>, <<"T">>},
     l \in {"in-office", "remote"},
     c \in {JsUndefined, JsStr(<<" ">>), JsStr(<<"K">>)},
     d \in {JsNull, JsStr(<<"W">>)},
     x \in {[status |-> JsUndefined, organizationId |-> JsUndefined],
            [status |-> JsStr(<<"p">>), organizationId |-> JsStr(<<"o">>)]}}

\* z.string().transform(val => val.trim() === "" ? null : val).nullable().optional()
TransformLocation(val) ==
  IF val.k = "string" /\ Trim(val.s) = <<>> THEN JsNull ELSE val

\* the fields after z.object has parsed them; unknown keys are stripped
SchemaData(unsafeData) ==
  [title |-> unsafeData.title,
   locationRequirement |-> unsafeData.locationRequirement,
   city |-> TransformLocation(unsafeData.city),
   district |-> TransformLocation(unsafeData.district)]

\* data.district != null || data.city != null
HasLocation(data) == data.district.k = "string" \/ data.city.k = "string"

\* every submission passes
SchemaAccepts_Always(unsafeData) == TRUE

\* safeParse(unsafeData).success: title.min(1) and the superRefine
SchemaAccepts(unsafeData) ==
  /\ unsafeData.title # <<>>
  /\ unsafeData.locationRequirement # "remote" =>
       HasLocation(SchemaData(unsafeData))

\* ------------------------------------------------------ server actions
\* server action calls in one behaviour
MaxCalls == 2

\* getCurrentOrganization(): the caller's active organization, if any
CallerOrgs == {Null} \cup OrganizationIds

NoValues == [title |-> <<>>, locationRequirement |-> "", city |-> JsUndefined,
             district |-> JsUndefined]

LoggedOut == "You must be logged in to create a job listing."

InvalidData == "Invalid data provided."

NotFound == "Job listing not found."

\* what a server action call did: who called, with what, what came back
\* (an error message, "none", or "thrown") and the values it handed to the
\* database
Returned(fn, via, orgId, id, unsafeData, error, data) ==
  /\ resp.n < MaxCalls
  /\ resp' = [fn |-> fn, via |-> via, orgId |-> orgId, id |-> id,
              unsafeData |-> unsafeData, error |-> error, data |-> data,
              n |-> resp.n + 1]

\* { ...data, organizationId: orgId, status: "draft" }
InsertValues(data, orgId) ==
  [title |-> data.title, locationRequirement |-> data.locationRequirement,
   city |-> data.city, district |-> data.district,
   organizationId |-> orgId, status |-> "draft"]

\* a column that was given no value is null
ColumnOf(val) == IF val.k = "undefined" THEN JsNull ELSE val

\* insertJobListing(values): the row the insert returns, under a fresh id
insertJobListing(id, values) ==
  [id |-> id, organizationId |-> values.organizationId,
   status |-> values.status, title |-> values.title,
   locationRequirement |-> values.locationRequirement,
   city |-> ColumnOf(values.city), district |-> ColumnOf(values.district)]

\* createJobListing(unsafeData), called directly (via = "direct") or by the
\* form (via = "form:" and the id of the listing the form was opened with)
CreateJobListing(via, orgId, unsafeData) ==
  IF orgId = Null
  THEN /\ Returned("createJobListing", via, orgId, "", unsafeData, LoggedOut,
                   NoValues)
       /\ UNCHANGED jobListings
  ELSE IF ~SchemaAccepts(unsafeData)
  THEN /\ Returned("createJobListing", via, orgId, "", unsafeData,
                   InvalidData, NoValues)
       /\ UNCHANGED jobListings
  ELSE IF orgId \notin organizations
  THEN /\ Returned("createJobListing", via, orgId, "", unsafeData, "thrown",
                   InsertValues(SchemaData(unsafeData), orgId))
       /\ UNCHANGED jobListings
  ELSE \E id \in JobListingIds \ ListingIds(jobListings) :
         /\ jobListings' = jobListings \cup
              {insertJobListing(id, InsertValues(SchemaData(unsafeData), orgId))}
         /\ Returned("createJobListing", via, orgId, id, unsafeData, "none",
                     InsertValues(SchemaData(unsafeData), orgId))

CallCreateJobListing ==
  /\ \E orgId \in CallerOrgs, unsafeData \in JobListingInputs :
       CreateJobListing("direct", orgId, unsafeData)
  /\ UNCHANGED <<users, settings, stale, run, faults, call, prev, last, used,
                 organizations, applications, cached>>

\* the location of a remote listing is kept as submitted
ClearLocationIfRemote_Never(data) == data

\* if (data.locationRequirement === "remote") { city = null; district = null }
ClearLocationIfRemote(data) ==
  IF data.locationRequirement = "remote"
  THEN [data EXCEPT !.city = JsNull, !.district = JsNull]
  ELSE data

\* db.query.JobListingTable.findFirst({ where: and(eq(id), eq(organizationId)) })
FindFirstListing(id, orgId) ==
  LET hits == {j \in jobListings : j.id = id /\ j.organizationId = orgId}
  IN IF hits = {} THEN [k |-> "undefined", row |-> {}]
     ELSE [k |-> "object", row |-> hits]

\* getJobListing(id, orgId): an async function, so what a caller holds before
\* it awaits is the promise of that row
getJobListing(id, orgId) == [k |-> "promise", row |-> FindFirstListing(id, orgId).row]

\* await getJobListing(id, orgId)
AwaitJobListing(id, orgId) == FindFirstListing(id, orgId)

\* !value: only undefined and null are falsy here; a promise is an object
Not(value) == value.k \in {"undefined", "null"}

\* updateJobListing(id, data) of db/jobListings: the columns that were given
\* a value are set on the row with that id
updateJobListingDb(id, data) ==
  {IF j.id = id
   THEN [j EXCEPT !.title = data.title,
                  !.locationRequirement = data.locationRequirement,
                  !.city = IF data.city.k = "undefined" THEN @ ELSE data.city,
                  !.district = IF data.district.k = "undefined" THEN @
                               ELSE data.district]
   ELSE j : j \in jobListings}

\* updateJobListing(id, unsafeData)
UpdateJobListing(via, orgId, id, unsafeData) ==
  IF orgId = Null
  THEN /\ Returned("updateJobListing", via, orgId, id, unsafeData, LoggedOut,
                   NoValues)
       /\ UNCHANGED jobListings
  ELSE IF ~SchemaAccepts(unsafeData)
  THEN /\ Returned("updateJobListing", via, orgId, id, unsafeData,
                   InvalidData, NoValues)
       /\ UNCHANGED jobListings
  ELSE IF Not(getJobListing(id, orgId))
  THEN /\ Returned("updateJobListing", via, orgId, id, unsafeData, NotFound,
                   NoValues)
       /\ UNCHANGED jobListings
  ELSE /\ jobListings' =
            updateJobListingDb(id, ClearLocationIfRemote(SchemaData(unsafeData)))
       /\ Returned("updateJobListing", via, orgId, id, unsafeData,
                   IF id \in ListingIds(jobListings) THEN "none" ELSE "thrown",
                   ClearLocationIfRemote(SchemaData(unsafeData)))

CallUpdateJobListing ==
  /\ \E orgId \in CallerOrgs, id \in JobListingIds,
        unsafeData \in JobListingInputs :
       UpdateJobListing("direct", orgId, id, unsafeData)
  /\ UNCHANGED <<users, settings, stale, run, faults, call, prev, last, used,
                 organizations, applications, cached>>

\* ------------------------------------------------------ JobListingForm
\* const action = jobListing ? updateJobListing.bind(null, jobListing.id)
\*                           : createJobListing
FormAction(opened) ==
  IF opened # "" THEN "updateJobListing" ELSE "createJobListing"

\* the server action onSubmit awaits: createJobListing(data)
FormInvokes(opened) == "createJobListing"

\* The edit page opens the form with a listing of the caller's organization,
\* the new page opens it without one; handleSubmit hands onSubmit the data
\* once the resolver accepts it.
SubmitJobListingForm ==
  /\ \E orgId \in OrganizationIds, unsafeData \in JobListingInputs,
        opened \in {""} \cup JobListingIds :
       /\ opened # "" => AwaitJobListing(opened, orgId).k = "object"
       /\ SchemaAccepts(unsafeData)
       /\ unsafeData.status = JsUndefined
       /\ unsafeData.organizationId = JsUndefined
       /\ IF FormInvokes(opened) = "updateJobListing"
          THEN UpdateJobListing("form:" \o opened, orgId, opened, unsafeData)
          ELSE CreateJobListing("form:" \o opened, orgId, unsafeData)
  /\ UNCHANGED <<users, settings, stale, run, faults, call, prev, last, used,
                 organizations, applications, cached>>

\* The job board as the actions find it: both organizations have a row, and
\* each of two listings is absent or present in one of two statuses.
InitialListing(id, organizationId, status) ==
  [id |-> id, organizationId |-> organizationId, status |-> status,
   title |-> <<"O">>, locationRequirement |-> "in-office",
   city |-> JsStr(<<"K">>), district |-> JsNull]

InitialTables ==
  {a \cup b :
     a \in {{}} \cup {{InitialListing("j1", "o1", st)} : st \in {"draft", "published"}},
     b \in {{}} \cup {{InitialListing("j2", "o2", st)} : st \in {"published", "delisted"}}}

InitBoard ==
  /\ users = <<>>
  /\ settings = <<>>
  /\ stale = {}
  /\ run = [r \in Runs |-> IdleRun]
  /\ faults = 0
  /\ call = NoCall
  /\ prev = NoCall
  /\ last = NoRevalidate
  /\ used = {}
  /\ organizations = OrganizationIds
  /\ jobListings \in InitialTables
  /\ applications = {}
  /\ resp = NoResp
  /\ cached = {}

NextJobs ==
  \/ CallCreateJobListing
  \/ CallUpdateJobListing
  \/ SubmitJobListingForm

SpecJobs == InitBoard /\ [][NextJobs]_vars


\* ======================================================== properties
\* no other run has worked on user id
Quiet(id, S) ==
  \A c \in Runs \ S : run[c].pc \in {"idle", "rejected"} \/ run[c].data.id # id

\* the payload's primary_email_address_id matches none of its email_addresses
NoPrimaryEmail(data) ==
  \A i \in DOMAIN data.email_addresses :
     data.email_addresses[i].id # data.primary_email_address_id

CreatedValid(r) == run[r].type = "created" /\ ~NoPrimaryEmail(run[r].data)

\* b handles the same user.created event as a, and was started after a ended
SecondDelivery(a, b) ==
  /\ a # b
  /\ CreatedValid(a) /\ CreatedValid(b)
  /\ run[a].data = run[b].data
  /\ run[a].pc = "done"
  /\ a \in run[b].after
  /\ Quiet(run[a].data.id, {a, b})

\* C1: when clerkCreateUser has handled a valid user.created event to
\* completion and then handles the same event again, the second run never
\* throws a duplicate-key error, and once it is done there is exactly one
\* user row and exactly one notification-settings row for the id.
C1_CreatedTwiceOneRow ==
  \A a, b \in Runs :
    SecondDelivery(a, b) =>
      /\ "conflict" \notin run[b].errs
      /\ run[b].pc = "done" =>
           /\ CountUsers(run[b].data.id) = 1
           /\ CountSettings(run[b].data.id) = 1

C1_Witness ==
  \E a, b \in Runs : SecondDelivery(a, b) /\ run[b].pc = "done"

\* C2: when runs of clerkCreateUser for one user id interleave, at most one
\* insert succeeds and no run fails an attempt on the primary-key conflict:
\* the loser of the race takes the conflict for a success.
C2_ConflictIsNotAnError ==
  /\ \A id \in UserIds : CountUsers(id) <= 1
  /\ \A r \in Runs : run[r].type = "created" => "conflict" \notin run[r].errs

\* C3: in every reachable state, also after a failure inside the create
\* step and between retries, a user row with id u exists if and only if a
\* notification-settings row with userId u exists.
C3_UserIffSettings ==
  \A id \in UserIds : (CountUsers(id) > 0) <=> (CountSettings(id) > 0)

\* C4: a user.created event whose primary_email_address_id matches none of
\* its email_addresses is rejected with the validation error, and its run
\* writes no row and opens no transaction.
C4_MalformedCreatedWritesNothing ==
  \A r \in Runs :
    (run[r].type = "created" /\ NoPrimaryEmail(run[r].data)) =>
      /\ run[r].pc \in {"received", "rejected"}
      /\ run[r].writes = 0
      /\ run[r].txs = 0
      /\ run[r].pc = "rejected" => run[r].errs = {"validation"}

C4_Witness ==
  \E r \in Runs :
    /\ run[r].type = "created" /\ NoPrimaryEmail(run[r].data)
    /\ run[r].pc = "rejected"

\* the payload is one the handler's validation must refuse
Malformed(r) ==
  IF run[r].type = "deleted" THEN run[r].data.id = Null
  ELSE NoPrimaryEmail(run[r].data)

\* C6: a step that fails validation is not retriable: the run is over after
\* that one attempt.  Every other failure of a step is retriable: a run that
\* failed on a conflict, on the store or on the cache is never rejected.
C6_OnlyValidationIsPermanent ==
  \A r \in Runs :
    /\ "validation" \in run[r].errs =>
         run[r].pc = "rejected" /\ run[r].attempts = 1 /\ Malformed(r)
    /\ run[r].pc = "rejected" => run[r].errs = {"validation"}
    /\ (run[r].pc # "idle" /\ Malformed(r)) => run[r].attempts <= 1

C6_Witness ==
  \E r, q \in Runs :
    /\ run[r].pc = "rejected"
    /\ run[q].errs \cap {"conflict", "infra", "cache"} # {}
    /\ run[q].pc = "done"

\* the tags clerkCreateUser must mark stale for a user id
CreatedTags(id) ==
  {"global:users", "id:users-" \o id,
   "global:userNotificationSettings", "id:userNotificationSettings-" \o id}

\* the create step committed both rows and then failed in (or before) the
\* cache invalidation
PartlyDone(r) ==
  /\ CreatedValid(r)
  /\ run[r].writes = 2
  /\ "cache" \in run[r].errs
  /\ Quiet(run[r].data.id, {r})

\* C7: a create step whose rows were committed but which failed before or
\* during cache invalidation can be run again: the re-run meets no
\* duplicate-key error, the id keeps exactly one user row and one settings
\* row, and when the run is done the four tags of the id are stale.
C7_PartialStepRerunnable ==
  \A r \in Runs :
    PartlyDone(r) =>
      /\ "conflict" \notin run[r].errs
      /\ CountUsers(run[r].data.id) = 1
      /\ CountSettings(run[r].data.id) = 1
      /\ run[r].pc = "done" => CreatedTags(run[r].data.id) \subseteq stale

C7_Witness ==
  \E r \in Runs : PartlyDone(r) /\ run[r].pc = "done" /\ run[r].attempts >= 2

\* a, b, c handled Created, Deleted, Created for one id, one after another
CreatedDeletedCreated(a, b, c) ==
  /\ CreatedValid(a) /\ CreatedValid(c)
  /\ run[b].type = "deleted"
  /\ run[b].data.id = run[a].data.id
  /\ run[c].data.id = run[a].data.id
  /\ a \in run[b].after /\ run[a].pc = "done"
  /\ b \in run[c].after /\ run[b].pc = "done"
  /\ run[c].pc = "done"
  /\ Quiet(run[a].data.id, {a, b, c})

\* the row a user.created payload stands for
ExpectedRow(data) ==
  LET e == CHOOSE x \in Range(data.email_addresses) :
             x.id = data.primary_email_address_id
      n == IF data.first_name = NullStr /\ data.last_name = NullStr
           THEN UnknownUser
           ELSE IF data.last_name = NullStr THEN data.first_name[1]
           ELSE IF data.first_name = NullStr THEN data.last_name[1]
           ELSE data.first_name[1] \o <<" ">> \o data.last_name[1]
  IN [id |-> data.id, name |-> n, imageUrl |-> data.image_url,
      email |-> e.email_address,
      createdAt |-> [time |-> data.created_at],
      updatedAt |-> [time |-> data.updated_at]]

\* C8: after Created, Deleted and Created again for one user id, handled
\* one after another, the id has exactly one user row, and the row carries
\* the name, email, image and timestamps of the second Created payload.
C8_RecreatedRowIsLastPayload ==
  \A a, b, c \in Runs :
    CreatedDeletedCreated(a, b, c) =>
      /\ CountUsers(run[c].data.id) = 1
      /\ \A i \in DOMAIN users :
           users[i].id = run[c].data.id => users[i] = ExpectedRow(run[c].data)

C8_Witness ==
  \E a, b, c \in Runs :
    CreatedDeletedCreated(a, b, c) /\ run[a].data # run[c].data

\* r is a Created run whose select found the row, about to leave the check
DuplicateCreated(r) ==
  /\ run[r].type = "created"
  /\ run[r].pc = "checked"
  /\ run[r].found
  /\ CountUsers(run[r].data.id) > 0

\* C9: a Created event for an id that already has a row writes nothing: the
\* step that follows the existence check leaves both tables as they are,
\* whatever the payload says, and takes the run on to its successful end.
C9_DuplicateCreatedIsNoop ==
  [][\A r \in Runs :
       (DuplicateCreated(r) /\ run'[r] # run[r]) =>
          /\ users' = users
          /\ settings' = settings
          /\ run'[r].pc = "reconciled"
          /\ run'[r].errs = run[r].errs
          /\ run'[r].writes = run[r].writes]_vars

C9_Witness ==
  \E r \in Runs :
    /\ run[r].type = "created" /\ run[r].pc = "done" /\ run[r].found
    /\ run[r].writes = 0
    /\ CountUsers(run[r].data.id) = 1
    /\ \A i \in DOMAIN users :
         users[i].id = run[r].data.id => users[i] # ExpectedRow(run[r].data)

\* r is a Deleted run that is about to issue its delete
DeleteIssued(r) ==
  /\ run[r].type = "deleted"
  /\ run[r].pc = "validated"
  /\ run'[r].pc = "reconciled"

\* C10: a Deleted event with an id is never refused.  Its delete leaves no
\* row of the id behind; when the id had no row the tables stay as they are,
\* zero rows are affected and no error is recorded, so handling the event
\* again changes nothing.
C10_DeleteMissingRowIsNoop ==
  /\ [](\A r \in Runs :
          (run[r].type = "deleted" /\ run[r].data.id # Null) =>
             run[r].pc # "rejected" /\ "validation" \notin run[r].errs)
  /\ [][\A r \in Runs :
          DeleteIssued(r) =>
            /\ CountUsers(run[r].data.id)' = 0
            /\ CountSettings(run[r].data.id)' = 0
            /\ CountUsers(run[r].data.id) = 0 =>
                 /\ users' = users
                 /\ settings' = settings
                 /\ run'[r].affected = 0
                 /\ run'[r].errs = run[r].errs]_vars

C10_Witness ==
  \E a, b \in Runs :
    /\ a # b
    /\ run[a].type = "deleted" /\ run[b].type = "deleted"
    /\ run[a].data.id = "u1" /\ run[b].data.id = "u1"
    /\ a \in run[b].after
    /\ run[a].pc = "done" /\ run[b].pc = "done"
    /\ run[b].affected = 0 /\ run[b].errs = {}

\* ------------------------------------------- fair scheduling of steps
\* Inngest runs every scheduled step and re-runs every step that failed with
\* a retriable error; the store fails at most MaxFaults times.
FairSpec == Init /\ [][Next]_vars /\ \A r \in Runs : WF_vars(Step(r))

\* a run that is over, with the outcome its payload calls for
Settled(r) ==
  \/ run[r].pc = "idle"
  \/ run[r].pc = "done" /\ ~Malformed(r)
  \/ run[r].pc = "rejected" /\ Malformed(r)

\* C5: with steps and retries scheduled fairly and a store that fails only
\* finitely often, every delivered event whose payload passes validation
\* ends in Done and every delivered event whose payload fails it ends in
\* Rejected: from some point on no run is in a non-terminal state.
C5_EveryEventTerminates == <>[](\A r \in Runs : Settled(r))

C5_Witness ==
  /\ \A t \in {"created", "updated", "deleted"} :
       \E r \in Runs : run[r].type = t /\ run[r].pc = "done"
  /\ \E r \in Runs : run[r].errs # {}


\* r is an Updated run that is about to issue its update
UpdateIssued(r) ==
  /\ run[r].type = "updated"
  /\ run[r].pc = "validated"
  /\ run'[r].pc = "reconciled"

C12_UpdateOverwritesMutableFields ==
  [][\A r \in Runs :
       (UpdateIssued(r) /\ CountUsers(run[r].data.id) > 0) =>
         /\ Len(users') = Len(users)
         /\ settings' = settings
         /\ run'[r].affected = CountUsers(run[r].data.id)
         /\ \A i \in DOMAIN users :
              IF users[i].id = run[r].data.id
              THEN users'[i] = [ExpectedRow(run[r].data) EXCEPT
                                  !.createdAt = users[i].createdAt]
              ELSE users'[i] = users[i]]_vars

\* an update has replaced the values of u1's row, whose createdAt is not the
\* payload's created_at, next to a row of u2
C12_Witness ==
  \E r \in Runs :
    /\ run[r].type = "updated" /\ run[r].pc = "done" /\ run[r].affected = 1
    /\ \E i, j \in DOMAIN users :
         /\ users[i].id = run[r].data.id
         /\ users[i].updatedAt = [time |-> run[r].data.updated_at]
         /\ users[i].createdAt # [time |-> run[r].data.created_at]
         /\ users[i].email = "b@x"
         /\ users[j].id # run[r].data.id

\* r's handler has validated the payload in this attempt and is at its
\* storage call
PastValidation(r) ==
  /\ ~Malformed(r)
  /\ \/ run[r].type \in {"updated", "deleted"} /\ run[r].pc = "validated"
     \/ run[r].type = "created" /\ run[r].pc = "checked"

\* C13: one event is handled in the order validate, reconcile, invalidate.
\* A step that writes a table belongs to a run that passed validation in this
\* attempt and marks no tag; a step that marks a tag belongs to a run whose
\* storage work of this attempt is over and writes no table; a run reaches
\* the end only from the invalidation.
C13_ValidateReconcileInvalidate ==
  [][/\ (users' # users \/ settings' # settings) =>
          /\ stale' = stale
          /\ \E r \in Runs :
               PastValidation(r) /\ run'[r].pc \in {"reconciled", "received"}
     /\ stale' # stale =>
          /\ users' = users /\ settings' = settings
          /\ \E r \in Runs :
               run[r].pc = "reconciled" /\ run'[r].pc \in {"done", "received"}
     /\ \A r \in Runs :
          /\ (run[r].pc # "reconciled" /\ run'[r].pc = "reconciled") =>
               PastValidation(r)
          /\ (run[r].pc # "done" /\ run'[r].pc = "done") =>
               run[r].pc = "reconciled"]_vars

\* a Created run that inserted and a Deleted run that removed a row have
\* both gone through the three phases
C13_Witness ==
  \E a, b \in Runs :
    /\ CreatedValid(a) /\ run[a].pc = "done" /\ run[a].writes = 2
    /\ run[b].type = "deleted" /\ run[b].pc = "done" /\ run[b].affected = 1
    /\ run[a].errs = {} /\ run[b].errs = {}
    /\ "global:users" \in stale

\* r handled its Created event to the end without inserting: the row existed
AlreadyExisted(r) ==
  CreatedValid(r) /\ run[r].pc = "done" /\ run[r].writes = 0

\* r handled its Created event to the end and inserted both rows
InsertedByRun(r) ==
  CreatedValid(r) /\ run[r].pc = "done" /\ run[r].writes = 2

\* C14: once a valid Created event for an id is handled to the end, the tags
\* global:users, id:users-<id>, global:userNotificationSettings and
\* id:userNotificationSettings-<id> are all stale, both when the run inserted
\* the rows and when the row already existed.
C14_CreatedMarksFourTags ==
  \A r \in Runs :
    (CreatedValid(r) /\ run[r].pc = "done") =>
      /\ CreatedTags(run[r].data.id) \subseteq stale
      /\ run[r].data.id = "u1" =>
           {"global:users", "id:users-u1", "global:userNotificationSettings",
            "id:userNotificationSettings-u1"} \subseteq stale

C14_Witness ==
  \E a, b \in Runs :
    /\ InsertedByRun(a) /\ AlreadyExisted(b)
    /\ run[a].data.id = "u1" /\ run[b].data.id = "u1"
    /\ run[a].errs = {} /\ run[b].errs = {}

\* C15: a failure of the cache invalidation is swallowed.  Whatever happens
\* to a Created run whose storage work is over, its next step ends the run
\* in success, records no error and costs no further attempt.
C15_CacheFailureIsSwallowed ==
  [][\A r \in Runs :
       (CreatedValid(r) /\ run[r].pc = "reconciled" /\ run'[r] # run[r]) =>
         /\ run'[r].pc = "done"
         /\ run'[r].errs = run[r].errs
         /\ run'[r].attempts = run[r].attempts]_vars

\* the two calls gave the same tag
SameTag(a, b) == a.fn # "none" /\ b.fn # "none" /\ a.out = b.out

\* C16: tags do not collide.  Two calls of the tag functions that return the
\* same string are calls of the same function (scope) for the same kind; so
\* getIdTag(k, i) is neither getGlobalTag(k) nor getIdTag(k2, i) for k2 # k.
C16_TagsDoNotCollide ==
  /\ SameTag(prev, call) => (prev.fn = call.fn /\ prev.kind = call.kind)
  /\ (prev.fn = "getIdTag" /\ call.fn = "getGlobalTag") => prev.out # call.out
  /\ (prev.fn = "getIdTag" /\ call.fn = "getIdTag"
        /\ prev.id = call.id /\ prev.kind # call.kind) => prev.out # call.out

C16_Witness ==
  /\ prev.fn = "getIdTag" /\ call.fn = "getIdTag"
  /\ prev.kind = "userNotifications" /\ call.kind = "userNotificationSettings"
  /\ prev.id = "a-users" /\ call.id = "a-users"
  /\ prev.out # call.out

\* C17: every scoped tag is parent kind, ":", parent id, "-", kind, with the
\* parent id before the kind, for getOrganizationTag as for getJobListingTag.
C17_ScopedTagShape ==
  /\ call.fn = "getOrganizationTag" =>
       call.out = "organization:" \o call.id \o "-" \o call.kind
  /\ call.fn = "getJobListingTag" =>
       call.out = "jobListing:" \o call.id \o "-" \o call.kind

\* C18 as stated: getIdTag fails with InvalidArgument on the empty id and
\* returns "id:" + kind + "-" + id on every other id.
C18_EmptyIdIsRejected ==
  call.fn = "getIdTag" =>
    IF call.id = "" THEN call.out = "InvalidArgument"
    ELSE call.out = "id:" \o call.kind \o "-" \o call.id

\* C18: getIdTag fails on no id: it returns "id:" + kind + "-" + id for every
\* id, and "id:" + kind + "-" for the empty id.
C18_GetIdTagIsTotal ==
  call.fn = "getIdTag" =>
    /\ call.out # "InvalidArgument"
    /\ call.out = "id:" \o call.kind \o "-" \o call.id
    /\ call.id = "" => call.out = "id:" \o call.kind \o "-"

C18_Witness ==
  /\ call.fn = "getIdTag" /\ call.kind = "users" /\ call.id = ""
  /\ call.out = "id:users-"
  /\ prev.fn = "getIdTag" /\ prev.id = "u1" /\ prev.out = "id:users-u1"

\* C19 as stated: revalidateJobListingCache emits the global tag, then the
\* id tag, then the parent-scoped (organization) tag.
C19_GlobalIdThenScoped ==
  last.fn = "revalidateJobListingCache" =>
    /\ Len(last.tags) = 3
    /\ last.tags[1] = "global:jobListings"
    /\ last.tags[2] = "id:jobListings-" \o last.id
    /\ last.tags[3] = getJobListingOrganizationTag(last.organizationId)

\* C19: revalidateJobListingCache({id, organizationId}) emits exactly three
\* tags in this order: the global tag of jobListings, then the
\* organization-scoped tag, then the id tag.
C19_GlobalScopedThenId ==
  last.fn = "revalidateJobListingCache" =>
    last.tags = <<"global:jobListings",
                  "organization:jobListings-" \o last.organizationId,
                  "id:jobListings-" \o last.id>>

C19_Witness ==
  /\ last.fn = "revalidateJobListingCache"
  /\ last.id = "j1" /\ last.organizationId = "o2"
  /\ last.tags[1] = "global:jobListings"
  /\ last.tags[3] = "id:jobListings-j1"
  /\ "id:jobListings-j1" \in stale

\* the tags one call with arguments a makes stale
TagsOfCall(a) ==
  IF a.fn = "revalidateUserCache"
    THEN {"global:users", "id:users-" \o a.id}
  ELSE IF a.fn = "revalidateUserNotificationSettingsCache"
    THEN {"global:userNotificationSettings",
          "id:userNotificationSettings-" \o a.id}
  ELSE {"global:jobListings", "id:jobListings-" \o a.id,
        "organization:jobListings-" \o a.organizationId}

\* C20: the stale tags are a function of the set of arguments the revalidate
\* functions were called with, whatever the order and the number of calls; a
\* call with arguments already used changes nothing.
C20_StaleDependsOnArgumentsOnly ==
  /\ [](stale = UNION {TagsOfCall(a) : a \in used})
  /\ [][used' = used => stale' = stale]_vars

\* a call was repeated after two others, one of them for the same
\* organization
C20_Witness ==
  /\ Cardinality(used) = 3
  /\ [fn |-> last.fn, id |-> last.id, organizationId |-> last.organizationId]
       \in used
  /\ last.fn = "revalidateJobListingCache"
  /\ \E a \in used : a.fn = "revalidateJobListingCache" /\ a.id # last.id
                        /\ a.organizationId = last.organizationId
  /\ \E a \in used : a.fn = "revalidateUserCache"
  /\ Cardinality(stale) = 6

\* r is an Updated run without a matching primary email or a Deleted run
\* whose id is null
MalformedUpdateOrDelete(r) ==
  \/ run[r].type = "updated" /\ NoPrimaryEmail(run[r].data)
  \/ run[r].type = "deleted" /\ run[r].data.id = Null

\* C24: clerkUpdateUser and clerkDeleteUser validate before they write.  An
\* Updated run with no matching primary email and a Deleted run with a null
\* id never get past the validation: the run fails for good on its first
\* attempt with the validation error, its update or delete is never issued,
\* and none of its steps changes a table or marks a tag.
C24_UpdateDeleteValidateFirst ==
  /\ [](\A r \in Runs :
          MalformedUpdateOrDelete(r) =>
            /\ run[r].pc \in {"received", "rejected"}
            /\ run[r].affected = 0 /\ run[r].writes = 0
            /\ run[r].attempts <= 1
            /\ run[r].pc = "rejected" => run[r].errs = {"validation"})
  /\ [][\A r \in Runs :
          (MalformedUpdateOrDelete(r) /\ run'[r] # run[r]) =>
            /\ run'[r].pc = "rejected"
            /\ users' = users /\ settings' = settings /\ stale' = stale]_vars

\* both kinds of malformed event were refused while u1 had a row
C24_Witness ==
  \E a, b \in Runs :
    /\ run[a].type = "updated" /\ NoPrimaryEmail(run[a].data)
    /\ run[b].type = "deleted" /\ run[b].data.id = Null
    /\ run[a].pc = "rejected" /\ run[b].pc = "rejected"
    /\ CountUsers("u1") = 1

\* C21: deleting a parent row removes its dependent rows.  In every state
\* each job listing references an organization that has a row, and each
\* application references a job listing and a user that have a row; so no
\* row that references a deleted user or organization remains.
C21_NoDanglingReference ==
  /\ \A j \in jobListings : j.organizationId \in organizations
  /\ \A a \in applications :
       /\ a.jobListingId \in ListingIds(jobListings)
       /\ CountUsers(a.userId) > 0

\* an organization was deleted together with a listing and an application,
\* while a listing of the other organization stays
C21_Witness ==
  /\ resp.fn = "deleteOrganization"
  /\ resp.removed >= 2
  /\ jobListings # {}
  /\ Cardinality(organizations) = 1

\* the step is a call of insertUserNotificationSettings that the database
\* accepted
SettingsInserted ==
  /\ resp'.fn = "insertUserNotificationSettings"
  /\ resp'.error = "none"

BlankOrAbsent(val) == val.k # "string" \/ val.s \in {<<>>, <<" ">>}

\* the submission must fail jobListingSchema: no title, or a listing that is
\* not remote and names neither a district nor a city
InvalidSubmission(d) ==
  \/ d.title = <<>>
  \/ /\ d.locationRequirement # "remote"
     /\ BlankOrAbsent(d.city)
     /\ BlankOrAbsent(d.district)

\* the step is a call of the server action fn
ActionCalled(fn) == resp'.fn = fn /\ resp'.n = resp.n + 1

\* C25: a listing inserted by createJobListing has status "draft" and the
\* caller's organization, whatever the submitted data contains; a call
\* without an organization or with data that fails the schema returns an
\* error object and inserts nothing; no call touches an existing row.
C25_CreateInsertsOwnDraft ==
  [][ActionCalled("createJobListing") =>
       /\ jobListings \subseteq jobListings'
       /\ \A j \in jobListings' \ jobListings :
            /\ j.status = "draft"
            /\ j.organizationId = resp'.orgId
            /\ j.organizationId \in OrganizationIds
            /\ j.id = resp'.id
       /\ (resp'.orgId = Null \/ InvalidSubmission(resp'.unsafeData)) =>
            /\ jobListings' = jobListings
            /\ resp'.error \in {LoggedOut, InvalidData}
       /\ (resp'.orgId # Null /\ ~InvalidSubmission(resp'.unsafeData)) =>
            /\ resp'.error = "none"
            /\ Cardinality(jobListings' \ jobListings) = 1]_vars

\* a submission that carried a status and an organization of its own was
\* stored as a draft of the caller's organization
C25_Witness ==
  /\ resp.fn = "createJobListing" /\ resp.error = "none"
  /\ resp.unsafeData.status = JsStr(<<"p">>)
  /\ resp.unsafeData.organizationId = JsStr(<<"o">>)
  /\ resp.orgId = "o2"
  /\ \E j \in jobListings :
       j.id = resp.id /\ j.status = "draft" /\ j.organizationId = "o2"

\* the listings with this id that belong to the organization
OwnedBy(id, orgId) ==
  {j \in jobListings : j.id = id /\ j.organizationId = orgId}

\* C22: updateJobListing called with valid data by a user of organization
\* orgId, for an id of which orgId owns no listing, returns "Job listing not
\* found." and updates nothing; no call changes a listing of another
\* organization.
C22_UpdateOnlyOwnListing ==
  [][ActionCalled("updateJobListing") =>
       /\ (/\ resp'.orgId # Null
           /\ ~InvalidSubmission(resp'.unsafeData)
           /\ OwnedBy(resp'.id, resp'.orgId) = {}) =>
            /\ resp'.error = NotFound
            /\ jobListings' = jobListings
       /\ \A j \in jobListings :
            j.organizationId # resp'.orgId => j \in jobListings']_vars

\* C26: what updateJobListing hands to the database is location-consistent:
\* a remote listing has neither city nor district, any other listing has a
\* district or a city; a submission that is not remote and names neither is
\* answered with "Invalid data provided." and nothing is written.
C26_UpdateLocationConsistent ==
  [][ActionCalled("updateJobListing") =>
       /\ resp'.error \in {"none", "thrown"} =>
            IF resp'.data.locationRequirement = "remote"
            THEN resp'.data.city = JsNull /\ resp'.data.district = JsNull
            ELSE \/ resp'.data.city.k = "string" /\ ~BlankOrAbsent(resp'.data.city)
                 \/ resp'.data.district.k = "string"
                      /\ ~BlankOrAbsent(resp'.data.district)
       /\ resp'.error \notin {"none", "thrown"} => jobListings' = jobListings
       /\ (/\ resp'.orgId # Null
           /\ resp'.unsafeData.locationRequirement # "remote"
           /\ BlankOrAbsent(resp'.unsafeData.city)
           /\ BlankOrAbsent(resp'.unsafeData.district)) =>
            /\ resp'.error = InvalidData
            /\ jobListings' = jobListings]_vars

\* a submission that is remote and still names a city and a district reached
\* the database call with neither
C26_Witness ==
  /\ resp.fn = "updateJobListing" /\ resp.error = "none"
  /\ resp.unsafeData.locationRequirement = "remote"
  /\ resp.unsafeData.city = JsStr(<<"K">>)
  /\ resp.unsafeData.district = JsStr(<<"W">>)
  /\ resp.data.locationRequirement = "remote"
  /\ resp.data.city = JsNull /\ resp.data.district = JsNull

\* the call came from the form that was opened with the listing id
FormOpenedWith(id) == resp'.via = "form:" \o id

\* C23: submitting the form that was opened with an existing listing invokes
\* updateJobListing for that listing's id and creates no listing; the form
\* that was opened without one invokes createJobListing.
C23_FormEditsExistingListing ==
  [][\A id \in JobListingIds :
       (FormOpenedWith(id) /\ resp'.n = resp.n + 1) =>
         /\ resp'.fn = "updateJobListing"
         /\ resp'.id = id
         /\ ListingIds(jobListings') = ListingIds(jobListings)]_vars

\* --------------------------------------------- OrganizationSelectPage
\* The redirect search parameter is a string the visitor controls; it is
\* taken apart by startsWith, so it is a sequence of characters.
MaxRedirectLen == 3

RedirectChars == {"/", "\\", ":", "e"}

RECURSIVE StringsUpTo(_)
StringsUpTo(n) ==
  IF n = 0 THEN {<<>>}
  ELSE LET shorter == StringsUpTo(n - 1)
       IN  shorter \cup {Append(t, c) : t \in shorter, c \in RedirectChars}

\* const { redirect } = await searchParams: absent, or any string
RedirectParams ==
  {JsUndefined} \cup {JsStr(t) : t \in StringsUpTo(MaxRedirectLen)}

\* String.prototype.startsWith
StartsWith(t, prefix) ==
  /\ Len(t) >= Len(prefix)
  /\ SubSeq(t, 1, Len(prefix)) = prefix

Employer == <<"/", "e", "m", "p", "l", "o", "y", "e", "r">>

\* redirect?.startsWith("/") && !redirect.startsWith("//"), as a condition
isInternal(redirect) ==
  /\ redirect.k = "string"
  /\ StartsWith(redirect.s, <<"/">>)
  /\ ~StartsWith(redirect.s, <<"/", "/">>)

\* const redirectUrl = isInternal ? redirect : "/employer"
redirectUrl(redirect) == IF isInternal(redirect) THEN redirect.s ELSE Employer

\* Where the browser goes when it is given url on a page of the application.
\* A reference that opens with two slashes and then a host, or that opens
\* with a scheme, names its own host; in an http(s) URL the parser reads a
\* backslash as a slash.
Slashes == {"/", "\\"}

HostChars == RedirectChars \ (Slashes \cup {":"})

NamesOwnHost(url) ==
  \/ \E i \in DOMAIN url :
       /\ i > Len(<<"/", "/">>)
       /\ url[i] \in HostChars
       /\ \A k \in 1..(i - 1) : url[k] \in Slashes
  \/ \E i \in DOMAIN url :
       /\ url[i] = ":"
       /\ i > 1
       /\ \A k \in 1..(i - 1) : url[k] \in HostChars

\* SuspendedPage({ searchParams }) renders OrganizationList with
\* afterSelectOrganizationUrl and afterCreateOrganizationUrl = redirectUrl
OrganizationSelectPage ==
  /\ resp.fn = "searchParams"
  /\ resp' = [fn |-> "OrganizationSelectPage", n |-> resp.n + 1,
              redirect |-> resp.redirect,
              afterSelectOrganizationUrl |-> redirectUrl(resp.redirect),
              afterCreateOrganizationUrl |-> redirectUrl(resp.redirect)]
  /\ UNCHANGED <<users, settings, stale, run, faults, call, prev, last, used,
                 organizations, jobListings, applications, cached>>

\* a request for the page, with any redirect parameter
InitRedirect ==
  /\ users = <<>>
  /\ settings = <<>>
  /\ stale = {}
  /\ run = [r \in Runs |-> IdleRun]
  /\ faults = 0
  /\ call = NoCall
  /\ prev = NoCall
  /\ last = NoRevalidate
  /\ used = {}
  /\ organizations = {}
  /\ jobListings = {}
  /\ applications = {}
  /\ resp \in {[fn |-> "searchParams", n |-> 0, redirect |-> r] :
                r \in RedirectParams}
  /\ cached = {}

SpecRedirect == InitRedirect /\ [][OrganizationSelectPage]_vars

Rendered == resp.fn = "OrganizationSelectPage"

\* C27: the page hands on the redirect parameter only when it starts with
\* "/" and not with "//", and "/employer" otherwise (missing and empty
\* included), so that the URL it redirects to never leaves the
\* application's origin.
C27_RedirectStaysInternal ==
  Rendered =>
    /\ resp.afterSelectOrganizationUrl = resp.afterCreateOrganizationUrl
    /\ IF /\ resp.redirect.k = "string"
          /\ resp.redirect.s # <<>>
          /\ resp.redirect.s[1] = "/"
          /\ ~(Len(resp.redirect.s) > 1 /\ resp.redirect.s[1 + 1] = "/")
       THEN resp.afterSelectOrganizationUrl = resp.redirect.s
       ELSE resp.afterSelectOrganizationUrl = Employer
    /\ ~NamesOwnHost(resp.afterSelectOrganizationUrl)

\* --------------------------------------------------------- cached reads
\* A function marked "use cache" runs once per argument list; its result is
\* kept under the tags it passed to cacheTag and served again until one of
\* them is revalidated.  The cache keeps MaxCached results and drops an
\* older one when it is full.
MaxCached == 1

NoParams == [title |-> JsUndefined, locationRequirement |-> "", jobIds |-> JsUndefined]

\* parsedParams: the filters a visitor can set ("" and undefined both count
\* as not set)
SearchParams ==
  [title : {JsUndefined, JsStr(<<"o">>)},
   locationRequirement : {"", "remote"},
   jobIds : {JsUndefined} \cup
            {[k |-> "array", s |-> ids] :
               ids \in {<<>>, <<"j1">>, <<"j1", "j2">>}}]

Entry(fn, id, orgId, params, jobListingId, tags, data) ==
  [fn |-> fn, id |-> id, orgId |-> orgId, params |-> params,
   jobListingId |-> jobListingId, tags |-> tags, fresh |-> TRUE, data |-> data]

SameCall(e, f) ==
  /\ e.fn = f.fn /\ e.id = f.id /\ e.orgId = f.orgId
  /\ e.params = f.params /\ e.jobListingId = f.jobListingId

\* the function body runs unless a fresh result of the same call is cached;
\* its result replaces a stale one of the same call
Cache(entry) ==
  /\ ~\E e \in cached : SameCall(e, entry) /\ e.fresh
  /\ LET others == {e \in cached : ~SameCall(e, entry)}
     IN  IF Cardinality(others) < MaxCached
         THEN cached' = others \cup {entry}
         ELSE \E dropped \in others :
                cached' = (others \ {dropped}) \cup {entry}
  /\ UNCHANGED <<users, settings, stale, run, faults, call, prev, last, used,
                 jobVars>>

\* getUser(id): cacheTag(getUserIdTag(id))
getUserTags(id) == {getUserIdTag(id)}

\* db.query.UserTable.findFirst({ where: eq(UserTable.id, id) })
getUser(id) == {users[i] : i \in RowsOf(users, "id", id)}

CallGetUser ==
  \E id \in UserIds :
    Cache(Entry("getUser", id, "", NoParams, "", getUserTags(id), getUser(id)))

\* getJobListing(id, orgId): cacheTag(getJobListingIdTag(id))
getJobListingTags(id, orgId) == {getJobListingIdTag(id)}

CallGetJobListing ==
  \E id \in JobListingIds, orgId \in OrganizationIds :
    Cache(Entry("getJobListing", id, orgId, NoParams, "",
                getJobListingTags(id, orgId), OwnedBy(id, orgId)))

\* case folding of the letters that occur in titles
LowerCase(t) ==
  [i \in DOMAIN t |->
     IF t[i] = "O" THEN "o" ELSE IF t[i] = "T" THEN "t" ELSE t[i]]

\* ilike(column, `%${text}%`)
ILike(column, text) ==
  \E i \in 0..(Len(column) - Len(text)) :
    SubSeq(LowerCase(column), i + 1, i + Len(text)) = LowerCase(text)

Truthy(val) == val.k \in {"string", "array"} /\ val.s # <<>>

\* and(...whereConditions): a condition is pushed only for a filter that is set
WhereConditions(params, listing) ==
  /\ Truthy(params.title) => ILike(listing.title, params.title.s)
  /\ params.locationRequirement # "" =>
       listing.locationRequirement = params.locationRequirement
  /\ Truthy(params.jobIds) => listing.id \in Range(params.jobIds.s)

Published(listing) == listing.status = "published"

\* findMany with the by-id branch lacking its status test
getJobListings_ByIdAnyStatus(params, jobListingId) ==
  {listing \in jobListings :
     \/ jobListingId # "" /\ listing.id = jobListingId
     \/ Published(listing) /\ WhereConditions(params, listing)}

\* db.query.JobListingTable.findMany({ where: or(jobListingId ? and(published,
\* id = jobListingId) : undefined, and(published, ...whereConditions)) })
getJobListings(params, jobListingId) ==
  {listing \in jobListings :
     \/ jobListingId # "" /\ Published(listing) /\ listing.id = jobListingId
     \/ Published(listing) /\ WhereConditions(params, listing)}

getOrganizationIdTag(id) == getIdTag("organizations", id)

\* the organization tags of the result alone
getJobListingsTags_OrganizationsOnly(data) ==
  {getOrganizationIdTag(listing.organizationId) : listing \in data}

\* cacheTag(getJobListingsGlobalTag()) and, for each listing of the result,
\* cacheTag(getOrganizationIdTag(listing.organization.id))
getJobListingsTags(data) ==
  {getJobListingsGlobalTag}
    \cup {getOrganizationIdTag(listing.organizationId) : listing \in data}

\* jobListingId: string | undefined, an absent one written ""
CallGetJobListings ==
  \E params \in SearchParams, jobListingId \in {""} \cup JobListingIds :
    Cache(Entry("getJobListings", "", "", params, jobListingId,
                getJobListingsTags(getJobListings(params, jobListingId)),
                getJobListings(params, jobListingId)))

\* the job board is searched over any of the initial tables
SpecSearch == InitBoard /\ [][CallGetJobListings]_vars

\* reads and revalidations in any order, over a table with a published
\* listing of one organization and a delisted one of the other
InitReads ==
  /\ users = <<>>
  /\ settings = <<>>
  /\ stale = {}
  /\ run = [r \in Runs |-> IdleRun]
  /\ faults = 0
  /\ call = NoCall
  /\ prev = NoCall
  /\ last = NoRevalidate
  /\ used = {}
  /\ organizations = OrganizationIds
  /\ jobListings = {InitialListing("j1", "o1", "published"),
                    InitialListing("j2", "o2", "delisted")}
  /\ applications = {}
  /\ resp = NoResp
  /\ cached = {}

NextReads ==
  \/ CallGetUser
  \/ CallGetJobListing
  \/ CallGetJobListings
  \/ CallRevalidateUserCache
  \/ CallRevalidateJobListingCache

SpecReads == InitReads /\ [][NextReads]_vars

\* C29: whatever the search parameters and the jobListingId, every listing
\* getJobListings returns is published; a draft or delisted listing is not
\* returned even when its id is the jobListingId or is among jobIds.
C29_OnlyPublishedReturned ==
  \A e \in cached :
    e.fn = "getJobListings" => \A listing \in e.data : Published(listing)

\* a draft listing was asked for by jobListingId and by jobIds, and the
\* result leaves it out
C29_Witness ==
  \E e \in cached, listing \in jobListings :
    /\ e.fn = "getJobListings"
    /\ ~Published(listing)
    /\ e.jobListingId = listing.id
    /\ Truthy(e.params.jobIds) /\ listing.id \in Range(e.params.jobIds.s)
    /\ listing \notin e.data
    /\ e.data # {}

\* the revalidate call concerns the entity and id the cached read is about
Concerns(revalidate, e) ==
  \/ /\ revalidate.fn = "revalidateUserCache"
     /\ e.fn = "getUser" /\ e.id = revalidate.id
  \/ /\ revalidate.fn = "revalidateJobListingCache"
     /\ e.fn = "getJobListing" /\ e.id = revalidate.id
  \/ /\ revalidate.fn = "revalidateJobListingCache"
     /\ e.fn = "getJobListings"

\* a step of a revalidate function: it is the last call now, and it either
\* was not before or it expired something without anything being read
RevalidateStep ==
  \/ last' # last
  \/ /\ cached' # cached
     /\ \A f \in cached' : f.fresh => f \in cached

FiledUnderOwnTag(e) ==
  /\ e.fn = "getUser" =>
       e.tags \cap Range(revalidateUserCache(e.id)) # {}
  /\ e.fn = "getJobListing" =>
       \A organizationId \in OrganizationIds :
         e.tags \cap Range(revalidateJobListingCache(e.id, organizationId)) # {}
  /\ e.fn = "getJobListings" => getJobListingsGlobalTag \in e.tags

\* C30: every cached read is filed under a tag the revalidate function of
\* its entity and id passes to revalidateTag (getUser(id) and
\* revalidateUserCache(id), getJobListing(id, orgId) and
\* revalidateJobListingCache of that id, getJobListings and the global
\* jobListings tag), and after a revalidate call no result cached before it
\* for that entity is fresh.
C30_CachedReadsAreInvalidated ==
  /\ [](\A e \in cached : FiledUnderOwnTag(e))
  /\ [][RevalidateStep =>
          \A e \in cached : Concerns(last', e) =>
            \A f \in cached' : SameCall(e, f) => ~f.fresh]_vars

\* a listing was read while fresh, its revalidate function was called, and
\* the cached result is marked stale
C30_Witness ==
  \E e \in cached :
    /\ Concerns(last, e)
    /\ e.fn = "getJobListing" /\ e.data # {}
    /\ ~e.fresh
====
